---------------------------- MODULE Spec2Model ----------------------------
(***************************************************************************)
(* The escaped run-length codec of session06/activity03.py as a state      *)
(* machine.  A Python str is a sequence of one-character strings; a Python *)
(* value is a record [type, val] so that a non-str argument can be passed. *)
(* Every caller owns one activation record: the variables are functions    *)
(* from the caller to the value of the local of that name in the source.   *)
(***************************************************************************)
EXTENDS Integers, Sequences, FiniteSets, TLC

\* ------------------------------------------------------------------ bounds
MaxLen == 4
MaxRun == 12
MaxBody == 5
NumCallers == 2

\* -------------------------------------------------------------- characters
Digits == {"0", "1", "2", "3", "4", "5", "6", "7", "8", "9"}

NonZeroDigits == Digits \ {"0"}

\* U+00B2 SUPERSCRIPT TWO, one character, written as its Python escape:
\* str.isdigit() is True of it, and the pattern \d, which matches the decimal
\* digits (category Nd) only, does not match it.
SuperscriptTwo == "\\u00b2"

\* U+0663 ARABIC-INDIC DIGIT THREE, a decimal digit (category Nd) outside 0-9:
\* str.isdigit() is True of it, \d matches it and int() reads it as 3.
ArabicThree == "\\u0663"

\* The characters the inputs of the escaped codec are drawn from.
Alphabet == {"A", "b", "#", "0", "1", "2", SuperscriptTwo}

Header == <<"#", "#", "0", "0">>

\* ch.isdigit()
isdigit(ch) == ch \in Digits \cup {SuperscriptTwo, ArabicThree}

\* \d of the re module on a str pattern
ReDigit(ch) == ch \in Digits \cup {ArabicThree}

DigitVal(ch) ==
    CASE ch = "0" -> 0 [] ch = "1" -> 1 [] ch = "2" -> 2 [] ch = "3" -> 3
      [] ch = "4" -> 4 [] ch = "5" -> 5 [] ch = "6" -> 6 [] ch = "7" -> 7
      [] ch = "8" -> 8 [] ch = "9" -> 9 [] ch = ArabicThree -> 3

DigitChar(d) ==
    CASE d = 0 -> "0" [] d = 1 -> "1" [] d = 2 -> "2" [] d = 3 -> "3"
      [] d = 4 -> "4" [] d = 5 -> "5" [] d = 6 -> "6" [] d = 7 -> "7"
      [] d = 8 -> "8" [] d = 9 -> "9"

\* str(cnt) for cnt >= 0: the decimal digits, most significant first.
RECURSIVE str(_)
str(m) == IF m < 10 THEN <<DigitChar(m)>>
          ELSE Append(str(m \div 10), DigitChar(m % 10))

\* int(digits) for a non-empty sequence of decimal digits.
RECURSIVE int(_)
int(ds) == IF Len(ds) = 1 THEN DigitVal(ds[1])
           ELSE 10 * int(SubSeq(ds, 1, Len(ds) - 1)) + DigitVal(ds[Len(ds)])

\* literal * count
Rep(lit, count) == [j \in 1..count |-> lit]

\* "".join(parts)
RECURSIVE Join(_)
Join(parts) == IF parts = <<>> THEN <<>> ELSE Head(parts) \o Join(Tail(parts))

\* Mutant: only the two '#' of the header are compared.
StartsWithHashes(v) == Len(v) >= 2 /\ SubSeq(v, 1, 2) = <<"#", "#">>

\* encoded.startswith("##00")
StartsWithHeader(v) == Len(v) >= 4 /\ SubSeq(v, 1, 4) = Header

\* ------------------------------------------------------------ python values
Str(v) == [type |-> "str", val |-> v]
NonStr == [type |-> "int", val |-> <<>>]
IsStr(x) == x.type = "str"
None == [type |-> "NoneType", val |-> <<>>]

\* ---------------------------------------------------------------- raises
NoExc == <<>>
TypeErrorText == <<"TypeError", "text must be a str">>
EmptyInput == <<"ValueError", "text must be non-empty">>
TypeErrorEncoded == <<"TypeError", "encoded must be a str">>
MissingHeader == <<"ValueError", "Encoded input must begin with the '##00' header">>
DanglingEscape == <<"ValueError", "Dangling escape '#' at end of encoded string">>
InvalidEscape ==
    <<"ValueError", "Invalid escape sequence: '#' must be followed by '#' or a digit">>

\* -------------------------------------------------------------- the inputs
SeqsUpTo(S, m) == UNION {[1..l -> S] : l \in 0..m}

ShortTexts == SeqsUpTo(Alphabet, MaxLen)

\* Texts with one run long enough for a Count of two digits.
LongTexts ==
    {pre \o Rep(c, l) \o suf :
        pre \in SeqsUpTo(Alphabet, 1), suf \in SeqsUpTo(Alphabet, 1),
        c \in Alphabet, l \in 10..MaxRun}

\* The texts of the module docstring and of rle_decode's docstring.
DocTexts ==
    {<<"A">>, <<"A", "A", "A", "A">>, <<"#">>, <<"#", "#", "#">>, <<"5">>,
     <<"5", "5", "5">>, <<"B", "1", "2">>, <<"Z", "0", "#", "#", "A">>}

\* Raw texts that themselves begin like the header.
HeaderTexts ==
    {<<"#", "0", "0">>, <<"#", "#", "0">>}
        \cup {Header \o t : t \in SeqsUpTo(Alphabet, 1)}

Texts == ShortTexts \cup LongTexts \cup DocTexts \cup HeaderTexts

Bodies == SeqsUpTo(Alphabet, MaxBody)

\* The streams of rle_decode's docstring, a Count of two digits, and a Count
\* whose second digit is a decimal digit outside 0-9.
DocStreams ==
    {Header \o <<"A", "1", ArabicThree>>,
     Header \o <<"A", "4">>, Header \o <<"#", "#", "3">>,
     Header \o <<"#", "5", "3">>, Header \o <<"B", "#", "1", "#", "2">>,
     Header \o <<"Z", "#", "1", "0", "#", "#", "2", "A">>,
     Header \o <<"A", "1", "2">>, Header \o <<"b", "#", "0", "1", "0", "A">>,
     <<"A", "4">>}

\* Streams whose first four characters differ from the header in one place.
NearHeaders ==
    UNION {{[Header EXCEPT ![p] = ch] \o b :
                ch \in Alphabet \ {Header[p]}, b \in SeqsUpTo(Alphabet, 1)} :
           p \in 1..4}

Streams ==
    {Header \o b : b \in Bodies} \cup ShortTexts \cup NearHeaders \cup DocStreams

\* ------------------------------------------------------------------- state
Callers == 1..NumCallers

VARIABLES
    pc,         \* where each caller's call stands
    fn,         \* the function the caller runs
    chain,      \* TRUE when the rle_decode call was given rle_encode's result
    text,       \* rle_encode: its parameter
    k,          \* rle_encode: characters of text[1:] the for loop has taken
    cur,        \* rle_encode: cur
    cnt,        \* rle_encode: cnt
    out_parts,  \* rle_encode: out_parts
    encoded,    \* rle_decode: its parameter
    s,          \* rle_decode: s
    i,          \* rle_decode: i
    n,          \* rle_decode: n
    out,        \* rle_decode: out
    toks,       \* rle_decode: the (literal, count) pairs read so far
    iters,      \* iterations of the running loop so far
    ret,        \* the returned str
    exc,        \* the raised exception, NoExc when none
    mpc,        \* main: where the program stands, "off" when main does not run
    stdin,      \* main: the lines not yet read
    stdout,     \* main: what was written, one entry per input() or print()
    user_text,  \* main: user_text
    weight_lbs,     \* get_user_input: weight_lbs
    height_feet,    \* get_user_input: height_feet
    height_inches,  \* get_user_input: height_inches
    bmi_ret,        \* get_user_input / calculate_bmi: what it returned
    total_height_inches,  \* calculate_bmi: total_height_inches
    bmi,            \* calculate_bmi: bmi
    bmi_exc         \* calculate_bmi: the raised exception, NoExc when none

encVars == <<text, k, cur, cnt, out_parts>>
decVars == <<encoded, s, i, n, out, toks>>
mainVars == <<mpc, stdin, stdout, user_text>>
inputVars == <<weight_lbs, height_feet, height_inches, bmi_ret>>
calcVars == <<total_height_inches, bmi, bmi_exc>>
bmiVars == <<inputVars, calcVars>>

\* A local that is not bound yet.
Unbound == [type |-> "unbound", val |-> <<>>]

\* get_user_input has not run.
NoBmi ==
    /\ weight_lbs = Unbound
    /\ height_feet = Unbound
    /\ height_inches = Unbound
    /\ bmi_ret = Unbound
    /\ total_height_inches = Unbound
    /\ bmi = Unbound
    /\ bmi_exc = NoExc

vars == <<pc, fn, chain, text, k, cur, cnt, out_parts, encoded, s, i, n, out,
          toks, iters, ret, exc, mpc, stdin, stdout, user_text,
          weight_lbs, height_feet, height_inches, bmi_ret,
          total_height_inches, bmi, bmi_exc>>

\* ----------------------------------------------------------------- Init
Blank(f) == [c \in Callers |-> f]

InitCall(c, f, t, e) ==
    /\ pc = [Blank("idle") EXCEPT ![c] = "call"]
    /\ fn = [Blank("none") EXCEPT ![c] = f]
    /\ text = [Blank(None) EXCEPT ![c] = t]
    /\ encoded = [Blank(None) EXCEPT ![c] = e]
    /\ chain = Blank(FALSE)
    /\ k = Blank(0)
    /\ cur = Blank("")
    /\ cnt = Blank(0)
    /\ out_parts = Blank(<<>>)
    /\ s = Blank(<<>>)
    /\ i = Blank(0)
    /\ n = Blank(0)
    /\ out = Blank(<<>>)
    /\ toks = Blank(<<>>)
    /\ iters = Blank(0)
    /\ ret = Blank(<<>>)
    /\ exc = Blank(NoExc)
    /\ NoBmi
    /\ mpc = "off"
    /\ stdin = <<>>
    /\ stdout = <<>>
    /\ user_text = None

Init ==
    \/ \E t \in {Str(v) : v \in Texts} \cup {NonStr} :
            InitCall(1, "rle_encode", t, None)
    \/ \E e \in {Str(v) : v \in Streams} \cup {NonStr} :
            InitCall(1, "rle_decode", None, e)

\* ------------------------------------------------------------- rle_encode
\* Mutant: a digit is written unescaped.
_encode_token_NoDigitEscape(ch) == IF ch = "#" THEN <<"#", "#">> ELSE <<ch>>

_encode_token(ch) ==
    IF ch = "#" THEN <<"#", "#">>
    ELSE IF isdigit(ch) THEN <<"#", ch>>
    ELSE <<ch>>

\* out_parts after a run of cnt characters cur is emitted.
\* Mutant: the header is left out.
InitOutPartsNoHeader == <<>>

\* out_parts before the scan: the header.
InitOutParts == <<Header>>

\* Mutant: the run is copied as it stands, neither escaped nor counted.
EmitRunVerbatim(parts, ch, count) == Append(parts, Rep(ch, count))

\* Mutant: the count is written for a run of one character too.
EmitRunAlwaysCount(parts, ch, count) ==
    Append(Append(parts, _encode_token(ch)), str(count))

EmitRun(parts, ch, count) ==
    LET withTok == Append(parts, _encode_token(ch))
    IN  IF count > 1 THEN Append(withTok, str(count)) ELSE withTok

Raise(c, e) ==
    /\ pc' = [pc EXCEPT ![c] = "raise"]
    /\ exc' = [exc EXCEPT ![c] = e]

\* Mutant: the empty text is encoded as the bare header.
EncEntryBareHeader(c) ==
    /\ pc[c] = "call" /\ fn[c] = "rle_encode"
    /\ IF ~IsStr(text[c])
         THEN Raise(c, TypeErrorText) /\ UNCHANGED <<k, cur, cnt, out_parts, ret>>
       ELSE IF text[c].val = <<>>
         THEN /\ out_parts' = [out_parts EXCEPT ![c] = InitOutParts]
              /\ ret' = [ret EXCEPT ![c] = Join(InitOutParts)]
              /\ pc' = [pc EXCEPT ![c] = "return"]
              /\ UNCHANGED <<k, cur, cnt, exc>>
       ELSE /\ out_parts' = [out_parts EXCEPT ![c] = InitOutParts]
            /\ cur' = [cur EXCEPT ![c] = text[c].val[1]]
            /\ cnt' = [cnt EXCEPT ![c] = 1]
            /\ k' = [k EXCEPT ![c] = 0]
            /\ pc' = [pc EXCEPT ![c] = "enc_loop"]
            /\ UNCHANGED <<exc, ret>>
    /\ UNCHANGED <<bmiVars, mainVars, fn, chain, text, decVars, iters>>

EncEntry(c) ==
    /\ pc[c] = "call" /\ fn[c] = "rle_encode"
    /\ IF ~IsStr(text[c])
         THEN Raise(c, TypeErrorText) /\ UNCHANGED <<k, cur, cnt, out_parts>>
       ELSE IF text[c].val = <<>>
         THEN Raise(c, EmptyInput) /\ UNCHANGED <<k, cur, cnt, out_parts>>
       ELSE /\ out_parts' = [out_parts EXCEPT ![c] = InitOutParts]
            /\ cur' = [cur EXCEPT ![c] = text[c].val[1]]
            /\ cnt' = [cnt EXCEPT ![c] = 1]
            /\ k' = [k EXCEPT ![c] = 0]
            /\ pc' = [pc EXCEPT ![c] = "enc_loop"]
            /\ exc' = exc
    /\ UNCHANGED <<bmiVars, mainVars, fn, chain, text, decVars, iters, ret>>

EncLoop(c) ==
    /\ pc[c] = "enc_loop"
    /\ k[c] < Len(text[c].val) - 1
    /\ LET ch == text[c].val[k[c] + 2]
       IN  IF ch = cur[c]
             THEN /\ cnt' = [cnt EXCEPT ![c] = @ + 1]
                  /\ UNCHANGED <<cur, out_parts>>
             ELSE /\ out_parts' = [out_parts EXCEPT ![c] = EmitRun(@, cur[c], cnt[c])]
                  /\ cur' = [cur EXCEPT ![c] = ch]
                  /\ cnt' = [cnt EXCEPT ![c] = 1]
    /\ k' = [k EXCEPT ![c] = @ + 1]
    /\ iters' = [iters EXCEPT ![c] = @ + 1]
    /\ UNCHANGED <<bmiVars, mainVars, pc, fn, chain, text, decVars, ret, exc>>

EncReturn(c) ==
    /\ pc[c] = "enc_loop"
    /\ k[c] >= Len(text[c].val) - 1
    /\ out_parts' = [out_parts EXCEPT ![c] = EmitRun(@, cur[c], cnt[c])]
    /\ ret' = [ret EXCEPT ![c] = Join(out_parts'[c])]
    /\ pc' = [pc EXCEPT ![c] = "return"]
    /\ UNCHANGED <<bmiVars, mainVars, fn, chain, text, k, cur, cnt, decVars, iters, exc>>

\* ------------------------------------------------------------- rle_decode
\* The end of the longest run of decimal digits of str that starts at index j
\* (0-based, as in the source).
RECURSIVE DigitsEnd(_, _)
DigitsEnd(str_, j) ==
    IF j < Len(str_) /\ ReDigit(str_[j + 1]) THEN DigitsEnd(str_, j + 1) ELSE j

\* _COUNT_RE.match(str_, start): <<matched, end>>.
_COUNT_RE_match(str_, start) ==
    IF start < Len(str_) /\ str_[start + 1] \in NonZeroDigits
      THEN <<TRUE, DigitsEnd(str_, start + 1)>>
      ELSE <<FALSE, start>>

\* Mutant: the count is one digit only.
_read_count_OneDigit(str_, start) ==
    IF start < Len(str_) /\ str_[start + 1] \in NonZeroDigits
      THEN <<DigitVal(str_[start + 1]), start + 1>>
      ELSE <<1, start>>

\* Mutant: the count may begin with '0' (pattern \d+).
_read_count_AnyDigits(str_, start) ==
    IF start < Len(str_) /\ ReDigit(str_[start + 1])
      THEN <<int(SubSeq(str_, start + 1, DigitsEnd(str_, start))),
             DigitsEnd(str_, start)>>
      ELSE <<1, start>>

\* _read_count(start): <<count, next_index>>.
_read_count(str_, start) ==
    LET m == _COUNT_RE_match(str_, start)
    IN  IF ~m[1] THEN <<1, start>>
        ELSE <<int(SubSeq(str_, start + 1, m[2])), m[2]>>

\* Mutant: the end of the stream is looked at before the header.
DecEntryBodyFirst(c) ==
    /\ pc[c] = "call" /\ fn[c] = "rle_decode"
    /\ IF ~IsStr(encoded[c])
         THEN Raise(c, TypeErrorEncoded) /\ UNCHANGED <<s, i, n, out>>
       ELSE IF encoded[c].val # <<>> /\ encoded[c].val[Len(encoded[c].val)] = "#"
                /\ ~StartsWithHeader(encoded[c].val)
         THEN Raise(c, DanglingEscape) /\ UNCHANGED <<s, i, n, out>>
       ELSE IF ~StartsWithHeader(encoded[c].val)
         THEN Raise(c, MissingHeader) /\ UNCHANGED <<s, i, n, out>>
       ELSE /\ s' = [s EXCEPT ![c] = SubSeq(encoded[c].val, 5, Len(encoded[c].val))]
            /\ i' = [i EXCEPT ![c] = 0]
            /\ n' = [n EXCEPT ![c] = Len(s'[c])]
            /\ out' = [out EXCEPT ![c] = <<>>]
            /\ pc' = [pc EXCEPT ![c] = "dec_loop"]
            /\ exc' = exc
    /\ iters' = [iters EXCEPT ![c] = 0]
    /\ toks' = [toks EXCEPT ![c] = <<>>]
    /\ UNCHANGED <<bmiVars, mainVars, fn, chain, encVars, encoded, ret>>

DecEntry(c) ==
    /\ pc[c] = "call" /\ fn[c] = "rle_decode"
    /\ IF ~IsStr(encoded[c])
         THEN Raise(c, TypeErrorEncoded) /\ UNCHANGED <<s, i, n, out>>
       ELSE IF ~StartsWithHeader(encoded[c].val)
         THEN Raise(c, MissingHeader) /\ UNCHANGED <<s, i, n, out>>
       ELSE /\ s' = [s EXCEPT ![c] = SubSeq(encoded[c].val, 5, Len(encoded[c].val))]
            /\ i' = [i EXCEPT ![c] = 0]
            /\ n' = [n EXCEPT ![c] = Len(s'[c])]
            /\ out' = [out EXCEPT ![c] = <<>>]
            /\ pc' = [pc EXCEPT ![c] = "dec_loop"]
            /\ exc' = exc
    /\ iters' = [iters EXCEPT ![c] = 0]
    /\ toks' = [toks EXCEPT ![c] = <<>>]
    /\ UNCHANGED <<bmiVars, mainVars, fn, chain, encVars, encoded, ret>>

\* Mutant: out is one buffer of the module, shared by all calls.
TakeTokenShared(c, literal, j) ==
    LET rc == _read_count(s[c], j)
    IN  /\ i' = [i EXCEPT ![c] = rc[2]]
        /\ out' = [d \in Callers |-> Append(out[d], Rep(literal, rc[1]))]
        /\ toks' = [toks EXCEPT ![c] =
                Append(@, [literal |-> literal, count |-> rc[1],
                           start |-> i[c], end |-> rc[2]])]
        /\ UNCHANGED <<pc, exc>>

\* The token read: literal, then the optional count from index j on.  toks
\* records the literal, the count, and where the token starts and ends in s.
TakeToken(c, literal, j) ==
    LET rc == _read_count(s[c], j)
    IN  /\ i' = [i EXCEPT ![c] = rc[2]]
        /\ out' = [out EXCEPT ![c] = Append(@, Rep(literal, rc[1]))]
        /\ toks' = [toks EXCEPT ![c] =
                Append(@, [literal |-> literal, count |-> rc[1],
                           start |-> i[c], end |-> rc[2]])]
        /\ UNCHANGED <<pc, exc>>

\* Mutant: off by one, the last two characters count as dangling.
DanglingOffByOne(j, len) == j + 2 >= len

\* i + 1 >= n: the '#' at index j is the last character.
Dangling(j, len) == j + 1 >= len

\* Mutant: the NORMAL branch forgets i += 1.
DecLoopNoAdvance(c) ==
    /\ pc[c] = "dec_loop"
    /\ i[c] < n[c]
    /\ LET ch == s[c][i[c] + 1]
       IN  IF ch = "#"
             THEN IF Dangling(i[c], n[c])
                    THEN Raise(c, DanglingEscape) /\ UNCHANGED <<i, out, toks>>
                  ELSE LET nxt == s[c][i[c] + 2]
                       IN  IF nxt = "#" THEN TakeToken(c, "#", i[c] + 2)
                           ELSE IF isdigit(nxt) THEN TakeToken(c, nxt, i[c] + 2)
                           ELSE Raise(c, InvalidEscape) /\ UNCHANGED <<i, out, toks>>
             ELSE TakeToken(c, ch, i[c])
    /\ iters' = [iters EXCEPT ![c] = @ + 1]
    /\ UNCHANGED <<bmiVars, mainVars, fn, chain, encVars, encoded, s, n, ret>>

DecLoop(c) ==
    /\ pc[c] = "dec_loop"
    /\ i[c] < n[c]
    /\ LET ch == s[c][i[c] + 1]
       IN  IF ch = "#"
             THEN IF Dangling(i[c], n[c])
                    THEN Raise(c, DanglingEscape) /\ UNCHANGED <<i, out, toks>>
                  ELSE LET nxt == s[c][i[c] + 2]
                       IN  IF nxt = "#" THEN TakeToken(c, "#", i[c] + 2)
                           ELSE IF isdigit(nxt) THEN TakeToken(c, nxt, i[c] + 2)
                           ELSE Raise(c, InvalidEscape) /\ UNCHANGED <<i, out, toks>>
             ELSE TakeToken(c, ch, i[c] + 1)
    /\ iters' = [iters EXCEPT ![c] = @ + 1]
    /\ UNCHANGED <<bmiVars, mainVars, fn, chain, encVars, encoded, s, n, ret>>

\* Mutant: an empty body is refused.
DecReturnRefuseEmpty(c) ==
    /\ pc[c] = "dec_loop"
    /\ i[c] >= n[c]
    /\ IF n[c] = 0
         THEN Raise(c, <<"ValueError", "empty body">>) /\ ret' = ret
         ELSE /\ ret' = [ret EXCEPT ![c] = Join(out[c])]
              /\ pc' = [pc EXCEPT ![c] = "return"]
              /\ exc' = exc
    /\ UNCHANGED <<bmiVars, mainVars, fn, chain, encVars, decVars, iters>>

DecReturn(c) ==
    /\ pc[c] = "dec_loop"
    /\ i[c] >= n[c]
    /\ ret' = [ret EXCEPT ![c] = Join(out[c])]
    /\ pc' = [pc EXCEPT ![c] = "return"]
    /\ UNCHANGED <<bmiVars, mainVars, fn, chain, encVars, decVars, iters, exc>>

\* ------------------------------------------------------------- round trip
\* decode(encode(s)): the stream rle_encode returned is handed to rle_decode.
Compose(c) ==
    /\ pc[c] = "return" /\ fn[c] = "rle_encode"
    /\ fn' = [fn EXCEPT ![c] = "rle_decode"]
    /\ encoded' = [encoded EXCEPT ![c] = Str(ret[c])]
    /\ chain' = [chain EXCEPT ![c] = TRUE]
    /\ pc' = [pc EXCEPT ![c] = "call"]
    /\ UNCHANGED <<bmiVars, mainVars, encVars, s, i, n, out, toks, iters, ret, exc>>

Next ==
    \E c \in Callers :
        \/ EncEntry(c)
        \/ EncLoop(c)
        \/ EncReturn(c)
        \/ DecEntry(c)
        \/ DecLoop(c)
        \/ DecReturn(c)
        \/ Compose(c)

Spec == Init /\ [][Next]_vars

\* The inputs of Init with the texts and the bodies one character shorter.
ShorterTexts == SeqsUpTo(Alphabet, MaxLen - 1) \cup LongTexts \cup DocTexts

ShorterStreams ==
    {Header \o b : b \in SeqsUpTo(Alphabet, MaxBody - 1)}
        \cup NearHeaders \cup DocStreams

\* The calls whose termination is checked.
InitFair ==
    \/ \E t \in {Str(v) : v \in ShorterTexts} \cup {NonStr} :
            InitCall(1, "rle_encode", t, None)
    \/ \E e \in {Str(v) : v \in ShorterStreams} \cup {NonStr} :
            InitCall(1, "rle_decode", None, e)

\* rle_encode(rle_decode(x)): the text rle_decode returned for the stream x is
\* handed to rle_encode; encoded[c] keeps x.
Recompose(c) ==
    /\ pc[c] = "return" /\ fn[c] = "rle_decode"
    /\ fn' = [fn EXCEPT ![c] = "rle_encode"]
    /\ text' = [text EXCEPT ![c] = Str(ret[c])]
    /\ iters' = [iters EXCEPT ![c] = 0]
    /\ pc' = [pc EXCEPT ![c] = "call"]
    /\ UNCHANGED <<bmiVars, mainVars, chain, k, cur, cnt, out_parts, decVars,
                   ret, exc>>

NextInv ==
    \E c \in Callers :
        \/ EncEntry(c)
        \/ EncLoop(c)
        \/ EncReturn(c)
        \/ DecEntry(c)
        \/ DecLoop(c)
        \/ DecReturn(c)
        \/ Compose(c)
        \/ Recompose(c)

\* Encoding and decoding in turn, from the calls of InitFair.
SpecInv == InitFair /\ [][NextInv]_vars

\* A call that can take a step takes it: the interpreter runs the loop.
SpecFair == InitFair /\ [][Next]_vars /\ WF_vars(Next)

\* ------------------------------------------------- the functions as a whole
\* What a call gives back: the returned str, or the exception raised.
Returned(v) == [ret |-> v, exc |-> NoExc]
Raised(e) == [ret |-> <<>>, exc |-> e]

\* The for loop of rle_encode from the character of t at index j (1-based) on,
\* followed by the final run.
RECURSIVE EncScan(_, _, _, _, _)
EncScan(t, j, current, count, parts) ==
    IF j > Len(t) THEN EmitRun(parts, current, count)
    ELSE IF t[j] = current THEN EncScan(t, j + 1, current, count + 1, parts)
    ELSE EncScan(t, j + 1, t[j], 1, EmitRun(parts, current, count))

rle_encode(t) ==
    IF ~IsStr(t) THEN Raised(TypeErrorText)
    ELSE IF t.val = <<>> THEN Raised(EmptyInput)
    ELSE Returned(Join(EncScan(t.val, 2, t.val[1], 1, InitOutParts)))

\* The while loop of rle_decode from index j (0-based) of the body on.
RECURSIVE DecScan(_, _, _)
DecScan(body, j, parts) ==
    LET take(literal, from) ==
            LET rc == _read_count(body, from)
            IN  DecScan(body, rc[2], Append(parts, Rep(literal, rc[1])))
    IN  IF j >= Len(body) THEN Returned(Join(parts))
        ELSE IF body[j + 1] = "#"
          THEN IF Dangling(j, Len(body)) THEN Raised(DanglingEscape)
               ELSE IF body[j + 2] = "#" THEN take("#", j + 2)
               ELSE IF isdigit(body[j + 2]) THEN take(body[j + 2], j + 2)
               ELSE Raised(InvalidEscape)
        ELSE take(body[j + 1], j + 1)

rle_decode(e) ==
    IF ~IsStr(e) THEN Raised(TypeErrorEncoded)
    ELSE IF ~StartsWithHeader(e.val) THEN Raised(MissingHeader)
    ELSE DecScan(SubSeq(e.val, 5, Len(e.val)), 0, <<>>)

\* ------------------------------------------------------- concurrent calls
\* Every caller makes one of these calls, or none; the steps interleave.
ConcCalls ==
    {<<"none", None>>,
     <<"rle_encode", Str(<<"A", "A", "#">>)>>,
     <<"rle_encode", Str(<<"1", "1", "b">>)>>,
     <<"rle_encode", NonStr>>,
     <<"rle_decode", Str(Header \o <<"A", "2", "#", "#">>)>>,
     <<"rle_decode", Str(Header \o <<"#", "1", "2", "b">>)>>,
     <<"rle_decode", Str(Header \o <<"A", "#">>)>>,
     <<"rle_decode", Str(<<"A">>)>>}

InitConc ==
    \E call \in [Callers -> ConcCalls] :
        /\ pc = [c \in Callers |->
                    IF call[c][1] = "none" THEN "idle" ELSE "call"]
        /\ fn = [c \in Callers |-> call[c][1]]
        /\ text = [c \in Callers |->
                    IF call[c][1] = "rle_encode" THEN call[c][2] ELSE None]
        /\ encoded = [c \in Callers |->
                    IF call[c][1] = "rle_decode" THEN call[c][2] ELSE None]
        /\ chain = Blank(FALSE)
        /\ k = Blank(0)
        /\ cur = Blank("")
        /\ cnt = Blank(0)
        /\ out_parts = Blank(<<>>)
        /\ s = Blank(<<>>)
        /\ i = Blank(0)
        /\ n = Blank(0)
        /\ out = Blank(<<>>)
        /\ toks = Blank(<<>>)
        /\ iters = Blank(0)
        /\ ret = Blank(<<>>)
        /\ exc = Blank(NoExc)
        /\ NoBmi
        /\ mpc = "off"
        /\ stdin = <<>>
        /\ stdout = <<>>
        /\ user_text = None

NextConc ==
    \E c \in Callers :
        \/ EncEntry(c)
        \/ EncLoop(c)
        \/ EncReturn(c)
        \/ DecEntry(c)
        \/ DecLoop(c)
        \/ DecReturn(c)

SpecConc == InitConc /\ [][NextConc]_vars

\* ------------------------------------------------------------------- main
\* The program of session06/activity03.py: _prompt, then one codec call made
\* by caller 1, then one print.
MaxEmptyLines == 2

PromptText == "Enter text (starts with '##00' to decode; otherwise encode): "
EmptyLineText == "Invalid input: input cannot be empty."

\* str.rstrip("\n")
RECURSIVE rstrip(_)
rstrip(v) ==
    IF v # <<>> /\ v[Len(v)] = "\n" THEN rstrip(SubSeq(v, 1, Len(v) - 1)) ELSE v

codecVars == <<pc, fn, chain, encVars, decVars, iters, ret, exc>>

\* No call has been made yet.
NoCall ==
    /\ pc = Blank("idle")
    /\ fn = Blank("none")
    /\ text = Blank(None)
    /\ encoded = Blank(None)
    /\ chain = Blank(FALSE)
    /\ k = Blank(0)
    /\ cur = Blank("")
    /\ cnt = Blank(0)
    /\ out_parts = Blank(<<>>)
    /\ s = Blank(<<>>)
    /\ i = Blank(0)
    /\ n = Blank(0)
    /\ out = Blank(<<>>)
    /\ toks = Blank(<<>>)
    /\ iters = Blank(0)
    /\ ret = Blank(<<>>)
    /\ exc = Blank(NoExc)

\* The lines a user types: texts and streams.
Lines == (ShorterTexts \cup ShorterStreams) \ {<<>>}

\* Standard input: some empty lines, then nothing (end of file), one line, or
\* one line followed by a line main never reads.
Stdins ==
    {Rep(<<>>, e) \o rest :
        e \in 0..MaxEmptyLines,
        rest \in {<<>>} \cup {<<l>> : l \in Lines}
                  \cup {<<l, <<"A">>>> : l \in DocTexts \cup DocStreams}}

InitMain ==
    /\ NoCall
    /\ NoBmi
    /\ mpc = "prompt"
    /\ stdin \in Stdins
    /\ stdout = <<>>
    /\ user_text = None

\* Mutant: the line is returned without the test for the empty string.
_prompt_NoEmptyTest ==
    /\ mpc = "prompt"
    /\ IF stdin = <<>>
         THEN /\ stdout' = Append(stdout, <<PromptText>>)
              /\ mpc' = "EOFError"
              /\ UNCHANGED <<stdin, user_text>>
         ELSE /\ stdin' = Tail(stdin)
              /\ stdout' = Append(stdout, <<PromptText>>)
              /\ user_text' = Str(rstrip(Head(stdin)))
              /\ mpc' = "try"
    /\ UNCHANGED codecVars
    /\ UNCHANGED bmiVars

\* One iteration of the loop of _prompt.  input() writes the prompt and reads
\* a line; at the end of the input it raises EOFError, which nothing catches.
_prompt ==
    /\ mpc = "prompt"
    /\ IF stdin = <<>>
         THEN /\ stdout' = Append(stdout, <<PromptText>>)
              /\ mpc' = "EOFError"
              /\ UNCHANGED <<stdin, user_text>>
         ELSE LET line == rstrip(Head(stdin))
              IN  /\ stdin' = Tail(stdin)
                  /\ IF line = <<>>
                       THEN /\ stdout' = stdout \o
                                    <<<<PromptText>>, <<EmptyLineText>>>>
                            /\ UNCHANGED <<mpc, user_text>>
                       ELSE /\ stdout' = Append(stdout, <<PromptText>>)
                            /\ user_text' = Str(line)
                            /\ mpc' = "try"
    /\ UNCHANGED codecVars
    /\ UNCHANGED bmiVars

\* Mutant: main encodes whatever the line begins with.
MainCallEncodeOnly ==
    /\ mpc = "try"
    /\ fn' = [fn EXCEPT ![1] = "rle_encode"]
    /\ text' = [text EXCEPT ![1] = user_text]
    /\ encoded' = encoded
    /\ pc' = [pc EXCEPT ![1] = "call"]
    /\ mpc' = "called"
    /\ UNCHANGED <<stdin, stdout, user_text, chain, k, cur, cnt, out_parts,
                   s, i, n, out, toks, iters, ret, exc>>
    /\ UNCHANGED bmiVars

\* main, the if inside try: the call of rle_decode or of rle_encode.
MainCall ==
    /\ mpc = "try"
    /\ IF StartsWithHeader(user_text.val)
         THEN /\ fn' = [fn EXCEPT ![1] = "rle_decode"]
              /\ encoded' = [encoded EXCEPT ![1] = user_text]
              /\ text' = text
         ELSE /\ fn' = [fn EXCEPT ![1] = "rle_encode"]
              /\ text' = [text EXCEPT ![1] = user_text]
              /\ encoded' = encoded
    /\ pc' = [pc EXCEPT ![1] = "call"]
    /\ mpc' = "called"
    /\ UNCHANGED <<stdin, stdout, user_text, chain, k, cur, cnt, out_parts,
                   s, i, n, out, toks, iters, ret, exc>>
    /\ UNCHANGED bmiVars

\* Mutant: the characters decoded before the error are printed too.
MainPrintPartial ==
    /\ mpc = "called" /\ pc[1] \in {"return", "raise"}
    /\ stdout' = stdout \o
            (IF pc[1] = "raise"
               THEN IF fn[1] = "rle_decode" /\ out[1] # <<>>
                      THEN <<<<"Decoded => ", Join(out[1])>>,
                             <<"Error: ", exc[1][2]>>>>
                      ELSE <<<<"Error: ", exc[1][2]>>>>
             ELSE IF fn[1] = "rle_decode" THEN <<<<"Decoded => ", ret[1]>>>>
             ELSE <<<<"Encoded => ", ret[1]>>>>)
    /\ mpc' = "exit"
    /\ UNCHANGED <<codecVars, stdin, user_text>>
    /\ UNCHANGED bmiVars

\* main, the print after the call returned or raised.
MainPrint ==
    /\ mpc = "called" /\ pc[1] \in {"return", "raise"}
    /\ stdout' = Append(stdout,
            IF pc[1] = "raise" THEN <<"Error: ", exc[1][2]>>
            ELSE IF fn[1] = "rle_decode" THEN <<"Decoded => ", ret[1]>>
            ELSE <<"Encoded => ", ret[1]>>)
    /\ mpc' = "exit"
    /\ UNCHANGED <<codecVars, stdin, user_text>>
    /\ UNCHANGED bmiVars

NextMain ==
    \/ _prompt
    \/ MainCall
    \/ MainPrint
    \/ \E c \in Callers :
            \/ EncEntry(c)
            \/ EncLoop(c)
            \/ EncReturn(c)
            \/ DecEntry(c)
            \/ DecLoop(c)
            \/ DecReturn(c)

SpecMain == InitMain /\ [][NextMain]_vars

\* A second run of main: the stream the first run printed after "Encoded => "
\* is the one line of its standard input.  chain[1] marks the second run;
\* text[1] keeps the line of the first run.
MainAgain ==
    /\ mpc = "exit" /\ ~chain[1]
    /\ fn[1] = "rle_encode" /\ pc[1] = "return"
    /\ stdout[Len(stdout)] = <<"Encoded => ", ret[1]>>
    /\ stdin' = <<ret[1]>>
    /\ stdout' = <<>>
    /\ user_text' = None
    /\ mpc' = "prompt"
    /\ chain' = [chain EXCEPT ![1] = TRUE]
    /\ UNCHANGED <<pc, fn, encVars, decVars, iters, ret, exc>>
    /\ UNCHANGED bmiVars

NextTwice ==
    \/ _prompt
    \/ MainCall
    \/ MainPrint
    \/ MainAgain
    \/ \E c \in Callers :
            \/ EncEntry(c)
            \/ EncLoop(c)
            \/ EncReturn(c)
            \/ DecEntry(c)
            \/ DecLoop(c)
            \/ DecReturn(c)

SpecTwice == InitMain /\ [][NextTwice]_vars

\* ------------------------------------------ session06/activity02.py
\* The plain-letters sibling codec and its program.  A call of a2_rle_encode
\* or a2_rle_decode is one step of caller c: text[c] is the argument of
\* rle_encode, encoded[c] the argument of rle_decode.
MaxSibLen == 3

\* [A-Za-z]
Letters ==
    {"A", "B", "C", "D", "E", "F", "G", "H", "I", "J", "K", "L", "M", "N", "O",
     "P", "Q", "R", "S", "T", "U", "V", "W", "X", "Y", "Z", "a", "b", "c", "d",
     "e", "f", "g", "h", "i", "j", "k", "l", "m", "n", "o", "p", "q", "r", "s",
     "t", "u", "v", "w", "x", "y", "z"}

NotAlphabetic ==
    <<"ValueError",
      "text must contain alphabetic characters only (A\\u2013Z or a\\u2013z)">>
InvalidRle ==
    <<"ValueError",
      "Invalid compressed RLE. Expected runs like Letter or Letter+Count (Count is a positive integer without leading zeros).">>
NonPositiveCount == <<"ValueError", "RLE counts must be positive integers">>

\* _ALPHA_RE.fullmatch(v) is not None
_ALPHA_RE_fullmatch(v) == v # <<>> /\ \A j \in 1..Len(v) : v[j] \in Letters

\* Mutant: the count is appended for a run of one letter too.
a2_EmitRunAlwaysCount(parts, ch, count) ==
    Append(Append(parts, <<ch>>), str(count))

\* out after the run of count letters ch is appended.
a2_EmitRun(parts, ch, count) ==
    LET withLetter == Append(parts, <<ch>>)
    IN  IF count > 1 THEN Append(withLetter, str(count)) ELSE withLetter

\* The for loop of rle_encode from the character of t at index j (1-based) on,
\* followed by the final run.
RECURSIVE a2_EncScan(_, _, _, _, _)
a2_EncScan(t, j, current, count, parts) ==
    IF j > Len(t) THEN a2_EmitRun(parts, current, count)
    ELSE IF t[j] = current
      THEN a2_EncScan(t, j + 1, current, count + 1, parts)
    ELSE a2_EncScan(t, j + 1, t[j], 1, a2_EmitRun(parts, current, count))

a2_rle_encode(t) ==
    IF ~IsStr(t) THEN Raised(TypeErrorText)
    ELSE IF t.val = <<>> THEN Raised(EmptyInput)
    ELSE IF ~_ALPHA_RE_fullmatch(t.val) THEN Raised(NotAlphabetic)
    ELSE Returned(Join(a2_EncScan(t.val, 2, t.val[1], 1, <<>>)))

\* Mutant: any run of digits after a letter is taken as a count.
RECURSIVE a2_AnyCountFrom(_, _)
a2_AnyCountFrom(v, j) ==
    IF j >= Len(v) THEN TRUE
    ELSE IF v[j + 1] \notin Letters THEN FALSE
    ELSE a2_AnyCountFrom(v, DigitsEnd(v, j + 1))

\* (?:[A-Za-z](?:[1-9]\d*)?)* matches v from index j (0-based) to its end.
RECURSIVE a2_RunsFrom(_, _)
a2_RunsFrom(v, j) ==
    IF j >= Len(v) THEN TRUE
    ELSE IF v[j + 1] \notin Letters THEN FALSE
    ELSE IF j + 1 < Len(v) /\ v[j + 2] \in NonZeroDigits
      THEN a2_RunsFrom(v, DigitsEnd(v, j + 2))
    ELSE a2_RunsFrom(v, j + 1)

\* _RLE_VALID_RE.fullmatch(v) is not None
_RLE_VALID_RE_fullmatch(v) == v # <<>> /\ a2_RunsFrom(v, 0)

\* _RLE_RUN_RE.findall(v) from index j (0-based) on: the (letter, digits)
\* pairs, left to right; a character that starts no match is skipped.
RECURSIVE _RLE_RUN_RE_findall(_, _)
_RLE_RUN_RE_findall(v, j) ==
    IF j >= Len(v) THEN <<>>
    ELSE IF v[j + 1] \notin Letters THEN _RLE_RUN_RE_findall(v, j + 1)
    ELSE LET end == DigitsEnd(v, j + 1)
         IN  <<<<v[j + 1], SubSeq(v, j + 2, end)>>>>
                 \o _RLE_RUN_RE_findall(v, end)

\* The for loop of rle_decode over the pairs that are left.
RECURSIVE a2_DecScan(_, _)
a2_DecScan(pairs, parts) ==
    IF pairs = <<>> THEN Returned(Join(parts))
    ELSE LET letter == pairs[1][1]
             digits == pairs[1][2]
             count == IF digits # <<>> THEN int(digits) ELSE 1
         IN  IF count <= 0 THEN Raised(NonPositiveCount)
             ELSE a2_DecScan(Tail(pairs), Append(parts, Rep(letter, count)))

a2_rle_decode(t) ==
    IF ~IsStr(t) THEN Raised(TypeErrorText)
    ELSE IF t.val = <<>> THEN Raised(EmptyInput)
    ELSE IF ~_RLE_VALID_RE_fullmatch(t.val) THEN Raised(InvalidRle)
    ELSE a2_DecScan(_RLE_RUN_RE_findall(t.val, 0), <<>>)

\* Mutant: only the first character is looked at.
a2_is_rle_string_First(v) == isdigit(v[1])

\* any(ch.isdigit() for ch in text)
a2_is_rle_string(v) == \E j \in 1..Len(v) : isdigit(v[j])

\* The characters the sibling's inputs are drawn from.
SibAlphabet == {"A", "b", "0", "1", "3", ArabicThree, " ", "#"}

\* The strings of the module docstring, and runs of ten letters and more.
SibDocs ==
    {<<"A", "A", "A", "B", "C", "C">>, <<"A", "3", "B", "C", "2">>,
     <<"x", "1", "2", "Y">>, <<"A", "0", "1">>, <<"A", "-", "2">>,
     <<"A", " ", "2">>, <<"A", "B", "3", "C", "0">>,
     <<"A", "a", "a", "B", "B", "B">>, <<"a", "1", "0", "B", "2">>}
        \cup {Rep("A", l) \o suf : l \in 10..MaxRun, suf \in {<<>>, <<"b">>}}

\* Strings of letters and counts, one character longer.
SibRuns == SeqsUpTo({"A", "a", "b", "0", "1", "2"}, MaxSibLen + 1)

SibStrings == SeqsUpTo(SibAlphabet, MaxSibLen) \cup SibRuns \cup SibDocs

\* str.strip(): leading and trailing whitespace removed.
RECURSIVE lstrip(_)
lstrip(v) == IF v # <<>> /\ v[1] = " " THEN lstrip(Tail(v)) ELSE v

RECURSIVE rstrip_ws(_)
rstrip_ws(v) ==
    IF v # <<>> /\ v[Len(v)] = " "
      THEN rstrip_ws(SubSeq(v, 1, Len(v) - 1)) ELSE v

strip(v) == rstrip_ws(lstrip(v))

a2_PromptText == "Enter a string (alphabetic to encode, or RLE to decode): "
a2_EmptyText == "Invalid input: Input cannot be empty."
a2_IllegalText ==
    "Invalid input: Use only letters A\\u2013Z/a\\u2013z and digits 0\\u20139 (no spaces)."

\* re.fullmatch(r"[A-Za-z0-9]+", v) is not None
a2_Screen(v) ==
    v # <<>> /\ \A j \in 1..Len(v) : v[j] \in Letters \cup Digits

\* Standard input of the sibling program: nothing, one line, or a line the
\* prompt refuses followed by one line.
SibStdins ==
    {<<>>} \cup {<<l>> : l \in SibStrings}
        \cup {<<r, l>> : r \in {<<>>, <<" ">>, <<"A", " ", "b">>, <<ArabicThree>>},
                          l \in SeqsUpTo(SibAlphabet, MaxSibLen - 1)}

InitSib ==
    \/ \E t \in {Str(v) : v \in SibStrings} \cup {NonStr} :
            \/ InitCall(1, "a2.rle_encode", t, None)
            \/ InitCall(1, "a2.rle_decode", None, t)
    \/ /\ NoCall
       /\ NoBmi
       /\ mpc = "a2.prompt"
       /\ stdin \in SibStdins
       /\ stdout = <<>>
       /\ user_text = None

\* A call gives back r: the returned str or the exception.
a2_End(c, r) ==
    /\ ret' = [ret EXCEPT ![c] = r.ret]
    /\ exc' = [exc EXCEPT ![c] = r.exc]
    /\ pc' = [pc EXCEPT ![c] = IF r.exc = NoExc THEN "return" ELSE "raise"]
    /\ UNCHANGED <<bmiVars, mainVars, fn, chain, encVars, decVars, iters>>

a2_Encode(c) ==
    /\ pc[c] = "call" /\ fn[c] = "a2.rle_encode"
    /\ a2_End(c, a2_rle_encode(text[c]))

a2_Decode(c) ==
    /\ pc[c] = "call" /\ fn[c] = "a2.rle_decode"
    /\ a2_End(c, a2_rle_decode(encoded[c]))

\* rle_decode(rle_encode(s)): the string rle_encode returned is handed to
\* rle_decode.
a2_Compose(c) ==
    /\ mpc = "off"
    /\ pc[c] = "return" /\ fn[c] = "a2.rle_encode"
    /\ fn' = [fn EXCEPT ![c] = "a2.rle_decode"]
    /\ encoded' = [encoded EXCEPT ![c] = Str(ret[c])]
    /\ chain' = [chain EXCEPT ![c] = TRUE]
    /\ pc' = [pc EXCEPT ![c] = "call"]
    /\ UNCHANGED <<bmiVars, mainVars, encVars, s, i, n, out, toks, iters, ret, exc>>

\* One iteration of the loop of _prompt_string.
_prompt_string ==
    /\ mpc = "a2.prompt"
    /\ IF stdin = <<>>
         THEN /\ stdout' = Append(stdout, <<a2_PromptText>>)
              /\ mpc' = "EOFError"
              /\ UNCHANGED <<stdin, user_text>>
         ELSE LET line == strip(Head(stdin))
              IN  /\ stdin' = Tail(stdin)
                  /\ IF line = <<>>
                       THEN /\ stdout' = stdout \o
                                    <<<<a2_PromptText>>, <<a2_EmptyText>>>>
                            /\ UNCHANGED <<mpc, user_text>>
                     ELSE IF ~a2_Screen(line)
                       THEN /\ stdout' = stdout \o
                                    <<<<a2_PromptText>>, <<a2_IllegalText>>>>
                            /\ UNCHANGED <<mpc, user_text>>
                     ELSE /\ stdout' = Append(stdout, <<a2_PromptText>>)
                          /\ user_text' = Str(line)
                          /\ mpc' = "a2.try"
    /\ UNCHANGED codecVars
    /\ UNCHANGED bmiVars

\* main, the if inside try: the call of rle_decode or of rle_encode.
a2_MainCall ==
    /\ mpc = "a2.try"
    /\ IF a2_is_rle_string(user_text.val)
         THEN /\ fn' = [fn EXCEPT ![1] = "a2.rle_decode"]
              /\ encoded' = [encoded EXCEPT ![1] = user_text]
              /\ text' = text
         ELSE /\ fn' = [fn EXCEPT ![1] = "a2.rle_encode"]
              /\ text' = [text EXCEPT ![1] = user_text]
              /\ encoded' = encoded
    /\ pc' = [pc EXCEPT ![1] = "call"]
    /\ mpc' = "a2.called"
    /\ UNCHANGED <<stdin, stdout, user_text, chain, k, cur, cnt, out_parts,
                   s, i, n, out, toks, iters, ret, exc>>
    /\ UNCHANGED bmiVars

\* main, the print after the call returned or raised.
a2_MainPrint ==
    /\ mpc = "a2.called" /\ pc[1] \in {"return", "raise"}
    /\ stdout' = Append(stdout,
            IF pc[1] = "raise" THEN <<"Error: ", exc[1][2]>>
            ELSE IF fn[1] = "a2.rle_decode" THEN <<"Decoded => ", ret[1]>>
            ELSE <<"Encoded (compressed) => ", ret[1]>>)
    /\ mpc' = "a2.exit"
    /\ UNCHANGED <<codecVars, stdin, user_text>>
    /\ UNCHANGED bmiVars

NextSib ==
    \/ _prompt_string
    \/ a2_MainCall
    \/ a2_MainPrint
    \/ \E c \in Callers :
            \/ a2_Encode(c)
            \/ a2_Decode(c)
            \/ a2_Compose(c)

SpecSib == InitSib /\ [][NextSib]_vars

\* ------------------------------------------------------- src/activity03.py
\* get_user_input of the BMI calculator (the same function is in
\* session04/activity01.py).  Every input() is one step.
MaxBmiLines == 4
MaxBmiWrites == 12

UpperCase ==
    <<"A", "B", "C", "D", "E", "F", "G", "H", "I", "J", "K", "L", "M", "N", "O",
      "P", "Q", "R", "S", "T", "U", "V", "W", "X", "Y", "Z">>
LowerCase ==
    <<"a", "b", "c", "d", "e", "f", "g", "h", "i", "j", "k", "l", "m", "n", "o",
      "p", "q", "r", "s", "t", "u", "v", "w", "x", "y", "z">>

\* str.lower()
lower(v) ==
    [j \in 1..Len(v) |->
        IF \E l \in 1..26 : UpperCase[l] = v[j]
          THEN LowerCase[CHOOSE l \in 1..26 : UpperCase[l] = v[j]]
          ELSE v[j]]

\* Mutant: only the lower-case 'q' quits.
IsQuitCaseSensitive(v) == v = <<"q">>

\* x_input.lower() == "q"
IsQuit(v) == lower(v) = <<"q">>

\* v without its sign.
Unsigned(v) == IF v # <<>> /\ v[1] = "-" THEN Tail(v) ELSE v

\* int(v) raises nothing: an optional '-' and one or more decimal digits (the
\* lines hold no whitespace, '+' or '_').
IsInt(v) ==
    Unsigned(v) # <<>> /\ \A j \in 1..Len(Unsigned(v)) : ReDigit(Unsigned(v)[j])

\* int(v)
IntOf(v) == IF v[1] = "-" THEN 0 - int(Unsigned(v)) ELSE int(Unsigned(v))

\* The places of the '.' in v.
Dots(v) == {j \in 1..Len(v) : v[j] = "."}

\* float(v) raises nothing: an optional '-', then decimal digits with at most
\* one '.', at least one digit (the lines hold no whitespace, '+', '_',
\* exponent, 'inf' or 'nan').
IsFloat(v) ==
    LET u == Unsigned(v)
    IN  /\ Cardinality(Dots(u)) <= 1
        /\ \E j \in 1..Len(u) : ReDigit(u[j])
        /\ \A j \in 1..Len(u) : ReDigit(u[j]) \/ u[j] = "."

\* float(v), exactly: the number m / 10^e.
float(v) ==
    LET u == Unsigned(v)
        ds == SelectSeq(u, ReDigit)
        e_ == IF Dots(u) = {} THEN 0 ELSE Len(u) - (CHOOSE j \in Dots(u) : TRUE)
    IN  [m |-> IF v[1] = "-" THEN 0 - int(ds) ELSE int(ds), e |-> e_]

\* repr(v) of a str without quotes or backslashes
repr(v) == <<"'">> \o v \o <<"'">>

WeightPrompt == "Enter your weight in pounds (or 'q' to quit): "
FeetPrompt == "Enter your height - feet component (or 'q' to quit): "
InchesPrompt == "Enter your height - inches component (or 'q' to quit): "

\* The lines typed at the prompts.
BmiLines ==
    {<<"q">>, <<"Q">>, <<"x">>, <<"0">>, <<"-", "5">>, <<"5">>, <<"4", "0">>,
     <<"2", ".", "5">>}

InitBmi ==
    /\ NoCall
    /\ NoBmi
    /\ mpc = "bmi.weight"
    /\ stdin \in SeqsUpTo(BmiLines, MaxBmiLines)
    /\ stdout = <<>>
    /\ user_text = None

\* return None
BmiQuit(prompt) ==
    /\ stdout' = Append(stdout, <<prompt>>)
    /\ bmi_ret' = None
    /\ mpc' = "bmi.return"

\* except ValueError: the message is printed and the while loop goes round.
BmiReject(prompt, message) ==
    /\ stdout' = stdout \o
            <<<<prompt>>, <<"Input error: ">> \o message \o <<". Please try again.">>>>
    /\ mpc' = "bmi.weight"

\* input() at the end of the input raises EOFError, which except Exception
\* catches: the loop goes round for ever (here, until MaxBmiWrites writes).
BmiEof(prompt) ==
    /\ Len(stdout) < MaxBmiWrites
    /\ stdout' = stdout \o
            <<<<prompt>>,
              <<"Unexpected error: ", "EOF when reading a line", ". Please try again.">>>>
    /\ mpc' = "bmi.weight"
    /\ UNCHANGED <<stdin, inputVars>>

BmiWeight ==
    /\ mpc = "bmi.weight"
    /\ IF stdin = <<>> THEN BmiEof(WeightPrompt)
       ELSE LET line == Head(stdin)
            IN  /\ stdin' = Tail(stdin)
                /\ IF IsQuit(line)
                     THEN /\ BmiQuit(WeightPrompt)
                          /\ UNCHANGED <<weight_lbs, height_feet, height_inches>>
                   ELSE IF ~IsFloat(line)
                     THEN /\ BmiReject(WeightPrompt,
                                <<"could not convert string to float: ", repr(line)>>)
                          /\ UNCHANGED inputVars
                   ELSE /\ weight_lbs' = float(line)
                        /\ stdout' = Append(stdout, <<WeightPrompt>>)
                        /\ mpc' = "bmi.feet"
                        /\ UNCHANGED <<height_feet, height_inches, bmi_ret>>
    /\ UNCHANGED <<codecVars, user_text, calcVars>>

BmiFeet ==
    /\ mpc = "bmi.feet"
    /\ IF stdin = <<>> THEN BmiEof(FeetPrompt)
       ELSE LET line == Head(stdin)
            IN  /\ stdin' = Tail(stdin)
                /\ IF IsQuit(line)
                     THEN /\ BmiQuit(FeetPrompt)
                          /\ UNCHANGED <<weight_lbs, height_feet, height_inches>>
                   ELSE IF ~IsInt(line)
                     THEN /\ BmiReject(FeetPrompt,
                                <<"invalid literal for int() with base 10: ",
                                  repr(line)>>)
                          /\ UNCHANGED inputVars
                   ELSE /\ height_feet' = IntOf(line)
                        /\ stdout' = Append(stdout, <<FeetPrompt>>)
                        /\ mpc' = "bmi.inches"
                        /\ UNCHANGED <<weight_lbs, height_inches, bmi_ret>>
    /\ UNCHANGED <<codecVars, user_text, calcVars>>

\* The inches prompt, the validation checks and the return.
BmiInches ==
    /\ mpc = "bmi.inches"
    /\ IF stdin = <<>> THEN BmiEof(InchesPrompt)
       ELSE LET line == Head(stdin)
            IN  /\ stdin' = Tail(stdin)
                /\ IF IsQuit(line)
                     THEN /\ BmiQuit(InchesPrompt)
                          /\ UNCHANGED <<weight_lbs, height_feet, height_inches>>
                   ELSE IF ~IsInt(line)
                     THEN /\ BmiReject(InchesPrompt,
                                <<"invalid literal for int() with base 10: ",
                                  repr(line)>>)
                          /\ UNCHANGED inputVars
                   ELSE /\ height_inches' = IntOf(line)
                        /\ UNCHANGED <<weight_lbs, height_feet>>
                        /\ IF weight_lbs.m <= 0
                             THEN /\ BmiReject(InchesPrompt,
                                        <<"Weight must be a positive number.">>)
                                  /\ bmi_ret' = bmi_ret
                           ELSE IF height_feet < 0 \/ IntOf(line) < 0
                             THEN /\ BmiReject(InchesPrompt,
                                        <<"Height components must not be negative.">>)
                                  /\ bmi_ret' = bmi_ret
                           ELSE IF height_feet = 0 /\ IntOf(line) < 36
                             THEN /\ BmiReject(InchesPrompt,
                                        <<"Height in inches is too short to be valid.">>)
                                  /\ bmi_ret' = bmi_ret
                           ELSE /\ stdout' = Append(stdout, <<InchesPrompt>>)
                                /\ bmi_ret' =
                                        [type |-> "tuple",
                                         val |-> <<weight_lbs, height_feet,
                                                   IntOf(line)>>]
                                /\ mpc' = "bmi.return"
    /\ UNCHANGED <<codecVars, user_text, calcVars>>

NextBmi ==
    \/ BmiWeight
    \/ BmiFeet
    \/ BmiInches

SpecBmi == InitBmi /\ [][NextBmi]_vars

\* ------------------------------------------- src/activity03.py, calculate_bmi
\* calculate_bmi (the same function is in session04/activity01.py), one step
\* per statement.  A float is held exactly: weight_lbs is m / 10^e and bmi is
\* num / den, the numbers the floats of the source round.
MaxFeet == 6
MaxInches == 40

HeightError == <<"ValueError", "Total height must be greater than zero.">>
ZeroDivision == <<"ZeroDivisionError", "float division by zero">>
RangeError ==
    <<"AssertionError", "Calculated BMI is outside realistic human range.">>

\* The weights of the calls: -5, 0, 2.5, 40, 150 and 600 pounds.
Weights ==
    {[m |-> 0 - 5, e |-> 0], [m |-> 0, e |-> 0], [m |-> 25, e |-> 1],
     [m |-> 40, e |-> 0], [m |-> 150, e |-> 0], [m |-> 600, e |-> 0]}

RECURSIVE Pow10(_)
Pow10(e) == IF e = 0 THEN 1 ELSE 10 * Pow10(e - 1)

InitCalc ==
    /\ NoCall
    /\ mpc = "calc.call"
    /\ stdin = <<>>
    /\ stdout = <<>>
    /\ user_text = None
    /\ weight_lbs \in Weights
    /\ height_feet \in (0 - MaxFeet)..MaxFeet
    /\ height_inches \in (0 - MaxInches)..MaxInches
    /\ bmi_ret = Unbound
    /\ total_height_inches = Unbound
    /\ bmi = Unbound
    /\ bmi_exc = NoExc

\* Mutant: only a negative total height is refused.
HeightRefusedNegative(total) == total < 0

\* total_height_inches <= 0
HeightRefused(total) == total <= 0

\* total_height_inches = ...; if total_height_inches <= 0: raise ValueError
CalcGuard ==
    /\ mpc = "calc.call"
    /\ total_height_inches' = height_feet * 12 + height_inches
    /\ IF HeightRefused(total_height_inches')
         THEN bmi_exc' = HeightError /\ mpc' = "calc.raise"
         ELSE bmi_exc' = bmi_exc /\ mpc' = "calc.divide"
    /\ UNCHANGED <<codecVars, stdin, stdout, user_text, inputVars, bmi>>

\* bmi = (weight_lbs / (total_height_inches ** 2)) * 703
CalcDivide ==
    /\ mpc = "calc.divide"
    /\ IF total_height_inches = 0
         THEN bmi_exc' = ZeroDivision /\ mpc' = "calc.raise" /\ bmi' = bmi
         ELSE /\ bmi' = [type |-> "float",
                         val |-> <<703 * weight_lbs.m,
                                   Pow10(weight_lbs.e) * total_height_inches
                                        * total_height_inches>>]
              /\ mpc' = "calc.assert"
              /\ bmi_exc' = bmi_exc
    /\ UNCHANGED <<codecVars, stdin, stdout, user_text, inputVars,
                   total_height_inches>>

\* assert 5 <= bmi <= 100; return bmi
CalcAssert ==
    /\ mpc = "calc.assert"
    /\ IF 5 * bmi.val[2] <= bmi.val[1] /\ bmi.val[1] <= 100 * bmi.val[2]
         THEN /\ bmi_ret' = bmi
              /\ mpc' = "calc.return"
              /\ bmi_exc' = bmi_exc
         ELSE /\ bmi_exc' = RangeError
              /\ mpc' = "calc.raise"
              /\ bmi_ret' = bmi_ret
    /\ UNCHANGED <<codecVars, stdin, stdout, user_text, weight_lbs,
                   height_feet, height_inches, total_height_inches, bmi>>

NextCalc ==
    \/ CalcGuard
    \/ CalcDivide
    \/ CalcAssert

SpecCalc == InitCalc /\ [][NextCalc]_vars

\* ------------------------------------------------------- claim vocabulary
\* The length of the maximal run that text t (non-empty) begins with.
LeadRun(t) ==
    CHOOSE l \in 1..Len(t) :
        /\ \A j \in 1..l : t[j] = t[1]
        /\ l = Len(t) \/ t[l + 1] # t[1]

\* The maximal runs of t, in order, as <<character, length>>.
RECURSIVE Runs(_)
Runs(t) ==
    IF t = <<>> THEN <<>>
    ELSE <<<<t[1], LeadRun(t)>>>> \o Runs(SubSeq(t, LeadRun(t) + 1, Len(t)))

\* The decimal numeral of m, 1 <= m <= 99: no leading zero, value m.
Decimal(m) ==
    CHOOSE d \in [1..1 -> Digits] \cup [1..2 -> Digits] :
        d[1] # "0" /\ int(d) = m

\* The token rle_encode writes for a literal: escaped when the literal is '#'
\* or str.isdigit() holds of it.
TokenOf(ch) ==
    IF ch = "#" THEN <<"#", "#">>
    ELSE IF ch \in Digits \cup {SuperscriptTwo} THEN <<"#", ch>>
    ELSE <<ch>>

\* The token the format gives a literal: '##' for '#', '#d' for a decimal
\* digit d (0-9), and every other character written as it is.
FormatTokenOf(ch) ==
    IF ch = "#" THEN <<"#", "#">>
    ELSE IF ch \in Digits THEN <<"#", ch>>
    ELSE <<ch>>

\* One token per run: its literal's token, then the length when above 1.
RECURSIVE RunParts(_)
RunParts(rs) ==
    IF rs = <<>> THEN <<>>
    ELSE <<FormatTokenOf(rs[1][1])>>
            \o (IF rs[1][2] > 1 THEN <<Decimal(rs[1][2])>> ELSE <<>>)
            \o RunParts(Tail(rs))

\* The (literal, Count) pairs rle_decode has read.
Pairs(c) == [j \in 1..Len(toks[c]) |-> <<toks[c][j].literal, toks[c][j].count>>]

IsPrefix(a, b) == Len(a) <= Len(b) /\ a = SubSeq(b, 1, Len(a))

Encoding(c) == fn[c] = "rle_encode"
Decoding(c) == fn[c] = "rle_decode"
Chars(v) == {v[j] : j \in 1..Len(v)}

\* The token toks[c][j] is a Plain token (its first character is not '#').
IsPlain(c, j) == s[c][toks[c][j].start + 1] # "#"

\* ------------------------------------------------------------------ C1
\* C1: round trip.  When the stream rle_encode returned for a non-empty text
\* is handed to rle_decode, the call raises nothing and returns the text.
C1_RoundTrip ==
    \A c \in Callers :
        (chain[c] /\ Decoding(c) /\ pc[c] # "call") =>
            /\ pc[c] # "raise"
            /\ pc[c] = "return" => ret[c] = text[c].val

\* A text with '#', a digit and a run of ten or more has made the round trip.
C1_Witness ==
    /\ chain[1] /\ Decoding(1) /\ pc[1] = "return"
    /\ ret[1] = text[1].val
    /\ "#" \in Chars(text[1].val)
    /\ Chars(text[1].val) \cap Digits # {}
    /\ Len(text[1].val) >= 11

\* ------------------------------------------------------------------ C2
\* C2: a Count of 0 or with a leading zero is rejected: rle_decode never
\* returns for a stream in which a token's literal is followed by the digit 0.
C2_MalformedCountRejected ==
    \A c \in Callers :
        (Decoding(c) /\ pc[c] = "return") =>
            \A j \in 1..Len(toks[c]) :
                ~(toks[c][j].end < n[c] /\ s[c][toks[c][j].end + 1] = "0")

\* ------------------------------------------------------------------ C3
\* C3: a Plain token's literal is never a decimal digit: rle_decode never
\* reads an unescaped decimal digit as a literal.
C3_PlainDigitRejected ==
    \A c \in Callers :
        Decoding(c) =>
            \A j \in 1..Len(toks[c]) :
                ~(IsPlain(c, j) /\ toks[c][j].literal \in Digits)

\* ------------------------------------------------------------------ C4
\* C4: escaping completeness.  While rle_decode scans rle_encode(text), the
\* (literal, Count) pairs read are the first maximal runs of text, and at the
\* return they are all of them.
C4_TokensAreRuns ==
    \A c \in Callers :
        (chain[c] /\ Decoding(c) /\ pc[c] \in {"dec_loop", "return"}) =>
            /\ IsPrefix(Pairs(c), Runs(text[c].val))
            /\ pc[c] = "return" => Pairs(c) = Runs(text[c].val)

\* A run of a digit, ten or more long, next to another run has been read.
C4_Witness ==
    /\ chain[1] /\ Decoding(1) /\ pc[1] = "return"
    /\ Len(toks[1]) >= 2
    /\ \E j \in 1..Len(toks[1]) :
            toks[1][j].literal \in Digits /\ toks[1][j].count >= 10
    /\ \E j \in 1..Len(toks[1]) :
            toks[1][j].literal \in Digits /\ toks[1][j].count = 1

\* ------------------------------------------------------------------ C5
\* C5: rle_encode's out_parts is the header, then for every maximal run of
\* the text, in order, the run's token ('##' for '#', '#d' for a decimal
\* digit d, the character itself otherwise) and, exactly when the run is
\* longer than 1, its length in decimal.
C5_OneTokenPerRun ==
    \A c \in Callers :
        (Encoding(c) /\ pc[c] = "return") =>
            out_parts[c] = <<Header>> \o RunParts(Runs(text[c].val))

\* ------------------------------------------------------------------ C6
\* C6: the stream rle_encode returns begins with '##00'; the header is one
\* part of out_parts, the first and no other, and what follows it begins with
\* the token of the first character of the text: the header is no part of the
\* text's first run.
C6_HeaderFirst ==
    \A c \in Callers :
        (Encoding(c) /\ pc[c] = "return") =>
            /\ Len(ret[c]) > 4
            /\ SubSeq(ret[c], 1, 4) = <<"#", "#", "0", "0">>
            /\ out_parts[c][1] = <<"#", "#", "0", "0">>
            /\ out_parts[c][2] = TokenOf(text[c].val[1])
            /\ \A j \in 2..Len(out_parts[c]) : out_parts[c][j] # out_parts[c][1]
            /\ SubSeq(ret[c], 5, Len(ret[c])) = Join(Tail(out_parts[c]))

\* A text that itself begins with '##00' has been encoded.
C6_Witness ==
    /\ Encoding(1) /\ pc[1] = "return"
    /\ Len(text[1].val) >= 4
    /\ SubSeq(text[1].val, 1, 4) = <<"#", "#", "0", "0">>

\* ------------------------------------------------------------------ C7
\* The str v does not begin with the four characters '##00'.
NoHeader(v) ==
    ~(Len(v) >= 4 /\ v[1] = "#" /\ v[2] = "#" /\ v[3] = "0" /\ v[4] = "0")

\* C7: for a str that does not begin with '##00', rle_decode raises the
\* missing-header ValueError and has scanned nothing.
C7_MissingHeader ==
    \A c \in Callers :
        (Decoding(c) /\ pc[c] # "call" /\ IsStr(encoded[c])
                /\ NoHeader(encoded[c].val)) =>
            /\ pc[c] = "raise"
            /\ exc[c] = <<"ValueError",
                          "Encoded input must begin with the '##00' header">>
            /\ iters[c] = 0 /\ toks[c] = <<>> /\ out[c] = <<>> /\ i[c] = 0

\* 'A4', and a stream that fails the header in its last place only, raised.
C7_Witness ==
    /\ Decoding(1) /\ pc[1] = "raise" /\ exc[1] = MissingHeader
    /\ encoded[1].val \in {<<"A", "4">>, <<"#", "#", "0", "A">>, <<>>}

\* ------------------------------------------------------------------ C8
\* C8: a step of the scan that starts at a '#' which is the last character
\* raises the dangling-escape ValueError and appends nothing; a step that
\* starts at '##' reads the literal '#' and raises nothing.
C8_DanglingEscape ==
    [][\A c \in Callers :
          (pc[c] = "dec_loop" /\ i[c] < n[c] /\ s[c][i[c] + 1] = "#"
                /\ iters'[c] # iters[c]) =>
            /\ (i[c] + 1 = n[c]) =>
                    /\ pc'[c] = "raise"
                    /\ exc'[c] = <<"ValueError",
                                   "Dangling escape '#' at end of encoded string">>
                    /\ out'[c] = out[c] /\ toks'[c] = toks[c]
            /\ (i[c] + 1 < n[c] /\ s[c][i[c] + 2] = "#") =>
                    /\ pc'[c] = "dec_loop" /\ exc'[c] = NoExc
                    /\ Len(toks'[c]) = Len(toks[c]) + 1
                    /\ toks'[c][Len(toks'[c])].literal = "#"]_vars

\* The dangling '#' was met after a token had been read.
C8_Witness ==
    /\ Decoding(1) /\ pc[1] = "raise" /\ exc[1] = DanglingEscape
    /\ Len(toks[1]) >= 1 /\ i[1] + 1 = n[1]

\* ------------------------------------------------------------------ C9
\* C9: rle_decode never reads '#' and a next character that is neither '#'
\* nor a decimal digit as a literal.
C9_InvalidEscapeRejected ==
    \A c \in Callers :
        Decoding(c) =>
            \A j \in 1..Len(toks[c]) :
                ~IsPlain(c, j) => s[c][toks[c][j].start + 2] \in {"#"} \cup Digits

\* ------------------------------------------------------------------ C10
\* C10: rle_encode of the empty str raises the non-empty ValueError and has
\* built no stream; no call of rle_encode returns the bare header.
C10_EmptyInput ==
    \A c \in Callers :
        /\ (Encoding(c) /\ pc[c] # "call" /\ IsStr(text[c]) /\ text[c].val = <<>>) =>
                /\ pc[c] = "raise"
                /\ exc[c] = <<"ValueError", "text must be non-empty">>
                /\ out_parts[c] = <<>> /\ ret[c] = <<>>
        /\ (Encoding(c) /\ pc[c] = "return") => ret[c] # <<"#", "#", "0", "0">>

\* rle_encode("") has raised.
C10_Witness ==
    /\ Encoding(1) /\ pc[1] = "raise" /\ text[1] = Str(<<>>)
    /\ exc[1] = EmptyInput

\* ------------------------------------------------------------------ C11
\* C11 as stated: rle_decode of a stream that is the header only does not
\* return.
C11_HeaderOnlyRejected ==
    \A c \in Callers :
        (Decoding(c) /\ IsStr(encoded[c])
                /\ encoded[c].val = <<"#", "#", "0", "0">>) =>
            pc[c] # "return"

\* C11 as amended: rle_decode of the header-only stream raises nothing, makes
\* no loop iteration and returns the empty str.
C11_HeaderOnlyDecodesEmpty ==
    \A c \in Callers :
        (Decoding(c) /\ IsStr(encoded[c])
                /\ encoded[c].val = <<"#", "#", "0", "0">>
                /\ pc[c] \notin {"call", "dec_loop"}) =>
            /\ pc[c] = "return" /\ ret[c] = <<>>
            /\ exc[c] = NoExc /\ iters[c] = 0 /\ toks[c] = <<>>

\* rle_decode('##00') has returned.
C11_Witness ==
    /\ Decoding(1) /\ ~chain[1] /\ pc[1] = "return"
    /\ encoded[1].val = <<"#", "#", "0", "0">> /\ ret[1] = <<>>

\* ------------------------------------------------------------------ C12
\* No two adjacent characters of t are equal.
NoRepeat(t) == \A j \in 1..(Len(t) - 1) : t[j] # t[j + 1]

\* C12: when no two adjacent characters of the text are equal, out_parts is
\* the header and then the token of each character in order, nothing else:
\* len(text) tokens, no Count, and a body of len(text) characters plus one
\* for every character that is '#' or a decimal digit.
C12_SingletonRuns ==
    \A c \in Callers :
        (Encoding(c) /\ pc[c] = "return" /\ NoRepeat(text[c].val)) =>
            /\ Len(out_parts[c]) = 1 + Len(text[c].val)
            /\ \A j \in 1..Len(text[c].val) :
                    out_parts[c][j + 1] = FormatTokenOf(text[c].val[j])
            /\ Len(ret[c]) - 4 =
                    Len(text[c].val)
                    + Cardinality({j \in 1..Len(text[c].val) :
                            text[c].val[j] \in {"#"} \cup Digits})

\* ------------------------------------------------------------------ C14
Ended(c) == pc[c] \in {"return", "raise"}

\* C14: every iteration of rle_decode's loop that does not raise moves the
\* cursor i forward, i never passes n and no more than n iterations are made;
\* rle_encode returns after exactly len(text) - 1 iterations; and every call
\* that is made ends, with a result or an error.
C14_Termination ==
    /\ [][\A c \in Callers :
            (pc[c] = "dec_loop" /\ iters'[c] # iters[c]) =>
                /\ iters'[c] = iters[c] + 1
                /\ pc'[c] = "raise" \/ i'[c] > i[c]
                /\ i'[c] <= n[c] /\ iters'[c] <= n[c]]_vars
    /\ [](\A c \in Callers :
            /\ Decoding(c) => (i[c] <= n[c] /\ (pc[c] # "call" => iters[c] <= n[c]))
            /\ (Encoding(c) /\ pc[c] = "return") =>
                    iters[c] = Len(text[c].val) - 1)
    /\ \A c \in Callers : (pc[c] = "call") ~> Ended(c)

\* A decode that took as many iterations as the body has characters, and an
\* encode of a long text, have ended.
C14_Witness ==
    \/ /\ Decoding(1) /\ ~chain[1] /\ pc[1] = "return"
       /\ n[1] = MaxBody - 1 /\ iters[1] = n[1]
    \/ /\ Encoding(1) /\ pc[1] = "return" /\ iters[1] >= 10

\* What main itself printed: stdout without the writes of _prompt.
MainPrints ==
    SelectSeq(stdout, LAMBDA w : w \notin {<<PromptText>>, <<EmptyLineText>>})

\* C13: no partial result on error.  When rle_decode raises, the call yields
\* the exception and no text, whatever was decoded before the error; main then
\* prints the 'Error: ...' line and nothing else, and at no time a
\* 'Decoded =>' line.
C13_NoPartialResult ==
    /\ \A c \in Callers :
            (Decoding(c) /\ pc[c] = "raise") =>
                /\ ret[c] = <<>>
                /\ exc[c] # NoExc
    /\ (mpc \in {"called", "exit"} /\ Decoding(1) /\ pc[1] # "return") =>
            \A j \in 1..Len(stdout) : stdout[j][1] # "Decoded => "
    /\ (mpc = "exit" /\ Decoding(1) /\ pc[1] = "raise") =>
            MainPrints = <<<<"Error: ", exc[1][2]>>>>

\* An error after two valid tokens, printed by main.
C13_Witness ==
    /\ mpc = "exit" /\ Decoding(1) /\ pc[1] = "raise"
    /\ Len(toks[1]) >= 2 /\ Len(Join(out[1])) >= 3
    /\ exc[1] \in {DanglingEscape, InvalidEscape}

\* The state of caller c.
Local(c) ==
    <<pc[c], fn[c], chain[c], text[c], k[c], cur[c], cnt[c], out_parts[c],
      encoded[c], s[c], i[c], n[c], out[c], toks[c], iters[c], ret[c], exc[c]>>

\* The same, after the step.
LocalNext(c) ==
    <<pc'[c], fn'[c], chain'[c], text'[c], k'[c], cur'[c], cnt'[c],
      out_parts'[c], encoded'[c], s'[c], i'[c], n'[c], out'[c], toks'[c],
      iters'[c], ret'[c], exc'[c]>>

\* What caller c's call gives back when it runs alone.
Alone(c) == IF Encoding(c) THEN rle_encode(text[c]) ELSE rle_decode(encoded[c])

\* C15: concurrent calls are independent.  With the scan steps of the calls
\* interleaved in any order, a step of one call leaves every other call's
\* cursor, run counter and output buffer as they were, and every call that ends
\* gives back what the same call gives back when it runs alone.
C15_Independent ==
    /\ [][\E c \in Callers :
            \A d \in Callers \ {c} : LocalNext(d) = Local(d)]_vars
    /\ [](\A c \in Callers :
            Ended(c) => [ret |-> ret[c], exc |-> exc[c]] = Alone(c))

\* Two calls whose steps interleaved, a decode that raised after it had decoded
\* a character and an encode that returned.
C15_Witness ==
    /\ Ended(1) /\ Ended(2)
    /\ Decoding(1) /\ exc[1] = DanglingEscape /\ out[1] # <<>>
    /\ Encoding(2) /\ ret[2] = Header \o <<"#", "1", "2", "b">>

\* ------------------------------------------------------------------ C16
SibEncoding(c) == fn[c] = "a2.rle_encode"
SibDecoding(c) == fn[c] = "a2.rle_decode"

\* A non-empty string over [A-Za-z].
OverLetters(v) == v # <<>> /\ Chars(v) \subseteq Letters

\* Caller c's call of the sibling's rle_encode has ended (its result may have
\* been handed on to rle_decode).
SibEncoded(c) == chain[c] \/ (SibEncoding(c) /\ Ended(c))

\* What that call returned.
SibEncodedAs(c) == IF chain[c] THEN encoded[c].val ELSE ret[c]

\* C16: the escaped codec subsumes the plain-letters codec.  For a non-empty
\* text over [A-Za-z] the sibling's rle_encode returns, and the escaped
\* rle_encode returns '##00' followed by the same string; for a string the
\* sibling's rle_decode accepts, the escaped rle_decode of '##00' followed by
\* that string returns the same text.
C16_Subsumes ==
    \A c \in Callers :
        /\ (SibEncoded(c) /\ IsStr(text[c]) /\ OverLetters(text[c].val)) =>
                /\ chain[c] \/ pc[c] = "return"
                /\ rle_encode(text[c]) = Returned(Header \o SibEncodedAs(c))
        /\ (SibDecoding(c) /\ pc[c] = "return") =>
                rle_decode(Str(Header \o encoded[c].val)) = Returned(ret[c])

\* A text with a run of ten letters or more and a second letter, encoded by
\* the sibling and decoded again.
C16_Witness ==
    /\ SibDecoding(1) /\ chain[1] /\ pc[1] = "return"
    /\ {"A", "b"} \subseteq Chars(text[1].val)
    /\ Len(text[1].val) >= 11

\* ------------------------------------------------------------------ C17
\* The sibling's encoding of runs: the letter, then the length when above 1.
RECURSIVE SibRunParts(_)
SibRunParts(rs) ==
    IF rs = <<>> THEN <<>>
    ELSE <<<<rs[1][1]>>>>
            \o (IF rs[1][2] > 1 THEN <<Decimal(rs[1][2])>> ELSE <<>>)
            \o SibRunParts(Tail(rs))

\* C17: round trip of the plain-letters codec.  For a non-empty text over
\* [A-Za-z] rle_encode returns every maximal run as its letter, followed by
\* the run's length only when the run is longer than 1; rle_decode of that
\* string raises nothing and returns the text, letter case included.
C17_SibRoundTrip ==
    \A c \in Callers :
        /\ (SibEncoded(c) /\ IsStr(text[c]) /\ OverLetters(text[c].val)) =>
                /\ chain[c] \/ pc[c] = "return"
                /\ SibEncodedAs(c) = Join(SibRunParts(Runs(text[c].val)))
        /\ (chain[c] /\ SibDecoding(c) /\ Ended(c)) =>
                /\ pc[c] = "return"
                /\ ret[c] = text[c].val

\* 'AaaBBB' went through rle_encode and rle_decode: runs of one, two and
\* three letters, in both cases.
C17_Witness ==
    /\ chain[1] /\ SibDecoding(1) /\ pc[1] = "return"
    /\ text[1].val = <<"A", "a", "a", "B", "B", "B">>
    /\ encoded[1].val = <<"A", "a", "2", "B", "3">>

\* ------------------------------------------------------------------ C18
\* v is a sequence of runs 'letter, then an optional count [1-9][0-9]*': it
\* holds letters and the digits 0-9 only, begins with a letter, and a '0'
\* comes only after a digit.
IsRunSequence(v) ==
    /\ v # <<>>
    /\ Chars(v) \subseteq Letters \cup Digits
    /\ v[1] \in Letters
    /\ \A j \in 2..Len(v) : v[j] = "0" => v[j - 1] \in Digits

\* C18: strict validation of the sibling's rle_decode.  For every non-empty
\* string that is not a sequence of runs 'letter, optional count
\* [1-9][0-9]*' the call raises ValueError and returns no text.
C18_StrictValidation ==
    \A c \in Callers :
        (/\ SibDecoding(c) /\ Ended(c) /\ IsStr(encoded[c])
         /\ encoded[c].val # <<>> /\ ~IsRunSequence(encoded[c].val)) =>
            /\ pc[c] = "raise"
            /\ exc[c][1] = "ValueError"
            /\ ret[c] = <<>>

\* ------------------------------------------------------------------ C19
\* v holds one of the digits 0-9.
HasDigit(v) == Chars(v) \cap Digits # {}

\* C19: dispatch of the sibling program.  Once the prompt has accepted a
\* line, main calls rle_decode when the line holds a digit and rle_encode when
\* it holds none, and it makes that one call only: no second call begins.
C19_SibDispatch ==
    /\ [](mpc \in {"a2.called", "a2.exit"} =>
            /\ SibDecoding(1) <=> HasDigit(user_text.val)
            /\ SibEncoding(1) <=> ~HasDigit(user_text.val)
            /\ IF SibDecoding(1) THEN encoded[1] = user_text /\ text[1] = None
                ELSE text[1] = user_text /\ encoded[1] = None
            /\ \A c \in Callers \ {1} : pc[c] = "idle")
    /\ [][(mpc # "off" /\ (fn' # fn \/ (pc'[1] = "call" /\ pc[1] # "call"))) =>
                (mpc = "a2.try" /\ mpc' = "a2.called")]_vars
    /\ [][mpc' = "a2.try" => mpc = "a2.prompt"]_vars

\* After a refused line the prompt accepted one with a digit; main called
\* rle_decode and printed.
C19_Witness ==
    /\ mpc = "a2.exit" /\ SibDecoding(1) /\ pc[1] = "return"
    /\ Len(stdout) = 4
    /\ HasDigit(user_text.val)

\* ------------------------------------------------------------------ C20
\* The prompt get_user_input is at.
PromptAt ==
    CASE mpc = "bmi.weight" -> WeightPrompt
      [] mpc = "bmi.feet" -> FeetPrompt
      [] mpc = "bmi.inches" -> InchesPrompt

\* The next line typed is 'q' or 'Q'.
QuitTyped ==
    /\ mpc \in {"bmi.weight", "bmi.feet", "bmi.inches"}
    /\ stdin # <<>>
    /\ Head(stdin) \in {<<"q">>, <<"Q">>}

\* The rounds that ended with 'Input error: ...' and a new round.
Rejected ==
    Cardinality({j \in 1..Len(stdout) : stdout[j][1] = "Input error: "})

\* C20: BMI prompt quit.  When 'q' or 'Q' is typed at the weight, feet or
\* inches prompt, get_user_input returns None in that step: the prompt just
\* answered is the last thing written, and nothing is read or written after
\* the return, however many rounds were rejected before.
C20_Quit ==
    /\ [][QuitTyped =>
            /\ mpc' = "bmi.return"
            /\ bmi_ret' = None
            /\ stdout' = Append(stdout, <<PromptAt>>)
            /\ stdin' = Tail(stdin)]_vars
    /\ [][mpc # "bmi.return"]_vars

\* 'q' at the feet prompt after two rejected rounds.
C20_Witness ==
    /\ mpc = "bmi.return" /\ bmi_ret = None
    /\ Rejected >= 2
    /\ stdout[Len(stdout)] = <<FeetPrompt>>

\* ------------------------------------------------------------------ C21
\* C21: BMI height guard.  Once calculate_bmi has passed its first statements
\* with height_feet * 12 + height_inches <= 0, it has raised ValueError with
\* 'Total height must be greater than zero.'; the division and the range
\* assertion were not evaluated: bmi is unbound and nothing was returned.
C21_HeightGuard ==
    (mpc \in {"calc.divide", "calc.assert", "calc.return", "calc.raise"}
     /\ height_feet * 12 + height_inches <= 0) =>
        /\ mpc = "calc.raise"
        /\ bmi_exc = HeightError
        /\ bmi = Unbound
        /\ bmi_ret = Unbound

\* calculate_bmi(150, 0, 0), the call of the test, has raised.
C21_Witness ==
    /\ mpc = "calc.raise" /\ bmi_exc = HeightError
    /\ weight_lbs = [m |-> 150, e |-> 0]
    /\ height_feet = 0 /\ height_inches = 0

\* ------------------------------------------------------------------ C22
\* Where the literal of token j of caller c ends in s (0-based, exclusive).
LiteralEnd(c, j) == toks[c][j].start + (IF IsPlain(c, j) THEN 1 ELSE 2)

\* The end of the longest run of the digits 0-9 of v that starts at index j.
RECURSIVE DecimalRunEnd(_, _)
DecimalRunEnd(v, j) ==
    IF j < Len(v) /\ v[j + 1] \in Digits THEN DecimalRunEnd(v, j + 1) ELSE j

\* The Count that follows index j of v, as <<count, end>>: the longest run of
\* the digits 0-9 when it starts with a non-zero digit, otherwise 1.
GreedyCount(v, j) ==
    IF j < Len(v) /\ v[j + 1] \in NonZeroDigits
      THEN <<int(SubSeq(v, j + 1, DecimalRunEnd(v, j))), DecimalRunEnd(v, j)>>
      ELSE <<1, j>>

\* The three streams the claim gives, as <<body, text>>.
GreedyExamples ==
    {<<<<"#", "5", "3">>, <<"5", "5", "5">>>>,
     <<<<"A", "1", "2">>, Rep("A", 12)>>,
     <<<<"Z", "#", "1", "0", "#", "#", "2", "A">>,
       <<"Z", "0", "#", "#", "A">>>>}

\* C22: greedy Count.  Every token rle_decode has read is its literal (for
\* an escaped token the character after '#') followed by the longest run of
\* decimal digits 0-9 that starts with a non-zero digit, read as the Count;
\* the token ends after that run and the literal is appended Count times.
\* '##00#53' decodes to '555', '##00A12' to twelve 'A' and '##00Z#10##2A' to
\* 'Z0##A'.
C22_GreedyCount ==
    \A c \in Callers :
        Decoding(c) =>
            /\ \A j \in 1..Len(toks[c]) :
                    /\ toks[c][j].literal = s[c][LiteralEnd(c, j)]
                    /\ <<toks[c][j].count, toks[c][j].end>>
                            = GreedyCount(s[c], LiteralEnd(c, j))
            /\ out[c] = [j \in 1..Len(toks[c]) |->
                            Rep(toks[c][j].literal, toks[c][j].count)]
            /\ \A x \in GreedyExamples :
                    (Ended(c) /\ encoded[c] = Str(Header \o x[1])) =>
                        pc[c] = "return" /\ ret[c] = x[2]

\* ------------------------------------------------------------------ C23
\* v begins with the four characters '##00'.
BeginsWithHeader(v) ==
    Len(v) >= 4 /\ v[1] = "#" /\ v[2] = "#" /\ v[3] = "0" /\ v[4] = "0"

\* C23: dispatch of the escaped-codec program.  Once _prompt has returned a
\* line, main calls rle_decode when the line begins with '##00' and
\* rle_encode when it does not, with the line as the argument; that call is
\* the only one of the run, and a line that begins with '##00' is never
\* encoded.
C23_Dispatch ==
    /\ [](mpc \in {"called", "exit"} =>
            /\ user_text.val # <<>>
            /\ Decoding(1) <=> BeginsWithHeader(user_text.val)
            /\ Encoding(1) <=> ~BeginsWithHeader(user_text.val)
            /\ IF Decoding(1) THEN encoded[1] = user_text /\ text[1] = None
                ELSE text[1] = user_text /\ encoded[1] = None
            /\ \A c \in Callers \ {1} : pc[c] = "idle")
    /\ [][(fn' # fn \/ \E c \in Callers : pc'[c] = "call" /\ pc[c] # "call") =>
                (mpc = "try" /\ mpc' = "called")]_vars
    /\ [][mpc' = "try" => mpc = "prompt"]_vars

\* A line that begins with '##00' and is no valid stream went to rle_decode,
\* and main printed the error.
C23_Witness ==
    /\ mpc = "exit" /\ Decoding(1) /\ pc[1] = "raise"
    /\ BeginsWithHeader(user_text.val)
    /\ Len(user_text.val) >= 6

\* ------------------------------------------------------------------ C24
\* Caller c encodes the text rle_decode returned for the stream encoded[c].
Recomposed(c) == Encoding(c) /\ IsStr(encoded[c])

\* C24 as stated: the decoder accepts only what the encoder emits.  When the
\* non-empty text rle_decode returned for a stream x is encoded, rle_encode
\* returns x.
C24_OnlyEmittedAccepted ==
    \A c \in Callers :
        (Recomposed(c) /\ pc[c] = "return") => ret[c] = encoded[c].val

\* C24 amended: the decoder accepts more than the encoder emits.  For a
\* stream x that rle_decode accepts with a non-empty result t, rle_encode(t)
\* returns a stream that rle_decode accepts and decodes to t; that stream is
\* x itself when x was returned by rle_encode.
C24_ReencodingDecodesAlike ==
    \A c \in Callers :
        /\ (Recomposed(c) /\ Ended(c) /\ text[c].val # <<>>) => pc[c] = "return"
        /\ (chain[c] /\ Decoding(c) /\ Ended(c)) =>
                pc[c] = "return" /\ ret[c] = text[c].val
        /\ (chain[c] /\ Recomposed(c) /\ pc[c] = "return") =>
                ret[c] = encoded[c].val

\* Two tokens of the same literal were decoded and the text encoded again:
\* the encoder returned a stream other than the one decoded.
C24_Witness ==
    /\ Recomposed(1) /\ ~chain[1] /\ pc[1] = "return"
    /\ Len(toks[1]) = 2 /\ toks[1][1].literal = toks[1][2].literal
    /\ ret[1] # encoded[1].val

\* ------------------------------------------------------------------ C25
\* The tokens rle_decode has read cover s[c] from index 0 to the cursor
\* without a gap.
Tiled(c) ==
    /\ toks[c] = <<>> => i[c] = 0
    /\ toks[c] # <<>> =>
            /\ toks[c][1].start = 0
            /\ toks[c][Len(toks[c])].end = i[c]
            /\ \A j \in 1..(Len(toks[c]) - 1) : toks[c][j].end = toks[c][j + 1].start

\* C25: a str without the header raises the missing-header error before the
\* body is looked at; an error of the body is raised at the first token that
\* cannot be read, all tokens before it having been read, and which error it
\* is depends on that token alone: a '#' in the last place is a dangling
\* escape, a '#' before a character that is no '#' and no digit is an invalid
\* escape, whatever follows the two characters.
C25_ErrorPrecedence ==
    \A c \in Callers :
        (Decoding(c) /\ pc[c] = "raise" /\ IsStr(encoded[c])) =>
            IF NoHeader(encoded[c].val)
              THEN exc[c] = MissingHeader /\ iters[c] = 0 /\ toks[c] = <<>>
              ELSE /\ exc[c] \in {DanglingEscape, InvalidEscape}
                   /\ Tiled(c)
                   /\ iters[c] = Len(toks[c]) + 1
                   /\ i[c] < n[c] /\ s[c][i[c] + 1] = "#"
                   /\ exc[c] = DanglingEscape <=> i[c] + 1 = n[c]
                   /\ exc[c] = InvalidEscape =>
                        /\ ~isdigit(s[c][i[c] + 2]) /\ s[c][i[c] + 2] # "#"
                        /\ \A e \in Streams :
                              IsPrefix(Header \o SubSeq(s[c], 1, i[c] + 2), e) =>
                                  rle_decode(Str(e)) = Raised(InvalidEscape)

\* '#' before a letter was met after a token had been read, with a dangling
\* '#' in the last place of the stream: the invalid escape was reported.
C25_Witness ==
    /\ Decoding(1) /\ pc[1] = "raise" /\ exc[1] = InvalidEscape
    /\ Len(toks[1]) >= 1
    /\ i[1] + 2 < n[1] /\ s[1][n[1]] = "#" /\ s[1][n[1] - 1] # "#"

\* ------------------------------------------------------------------ C26
\* The indices (0-based) at which the four characters '##00' occur in v.
HeaderAt(v) ==
    {j \in 0..(Len(v) - 4) : SubSeq(v, j + 1, j + 4) = Header}

\* C26: in the stream rle_encode returns, '##00' occurs at index 0 and at no
\* other index.
C26_HeaderOnlyAtStart ==
    \A c \in Callers :
        (Encoding(c) /\ pc[c] = "return") => HeaderAt(ret[c]) = {0}

\* rle_encode returned for a text that itself contains '##00', and for a text
\* that contains '#00'.
C26_Witness ==
    /\ Encoding(1) /\ pc[1] = "return"
    /\ HeaderAt(ret[1]) = {0}
    /\ \/ HeaderAt(text[1].val) # {} /\ Len(text[1].val) >= 5
       \/ Len(text[1].val) >= 3
              /\ SubSeq(text[1].val, 1, 3) = <<"#", "0", "0">>

\* ------------------------------------------------------------------ C27
\* C27: the first run of main, given a non-empty line that does not begin
\* with '##00', prints a stream that begins with '##00'; the second run,
\* given that stream, calls rle_decode, which raises nothing, and prints
\* exactly the line of the first run.
C27_CliRoundTrip ==
    /\ (~chain[1] /\ mpc = "exit" /\ NoHeader(user_text.val)) =>
            /\ Encoding(1) /\ pc[1] = "return"
            /\ StartsWithHeader(ret[1])
            /\ stdout[Len(stdout)] = <<"Encoded => ", ret[1]>>
    /\ chain[1] =>
            /\ mpc # "EOFError"
            /\ mpc \in {"called", "exit"} => Decoding(1) /\ pc[1] # "raise"
            /\ mpc = "exit" =>
                    stdout = <<<<PromptText>>, <<"Decoded => ", text[1].val>>>>

\* The second run printed a line of the first run that holds '#', a digit and
\* a run of two characters.
C27_Witness ==
    /\ chain[1] /\ mpc = "exit"
    /\ stdout[2] = <<"Decoded => ", text[1].val>>
    /\ "#" \in Chars(text[1].val)
    /\ Chars(text[1].val) \cap Digits # {}
    /\ \E j \in 1..(Len(text[1].val) - 1) : text[1].val[j] = text[1].val[j + 1]

\* ------------------------------------------------------------------ C28
\* The line main holds is not empty, every prompt before the last was
\* answered by the empty-input message, and rle_encode has no empty text.
LineHeld ==
    /\ (mpc \in {"try", "called", "exit"}) =>
            /\ IsStr(user_text) /\ user_text.val # <<>>
            /\ \A j \in 1..(Len(stdout) - 1) :
                    (stdout[j] = <<PromptText>>) =>
                        \/ stdout[j + 1] = <<EmptyLineText>>
                        \/ j + 1 = Len(stdout) /\ mpc = "exit"
    /\ Encoding(1) => (IsStr(text[1]) /\ text[1].val # <<>>)
    /\ exc[1] # EmptyInput

\* One iteration of the loop of _prompt on a line that is there.
LineRead ==
    (mpc = "prompt" /\ stdin # <<>>) =>
        /\ stdin' = Tail(stdin)
        /\ (Head(stdin) = <<>>) =>
                /\ mpc' = "prompt" /\ user_text' = user_text
                /\ stdout' = stdout \o <<<<PromptText>>, <<EmptyLineText>>>>
        /\ (Head(stdin) # <<>>) =>
                /\ mpc' = "try" /\ user_text' = Str(Head(stdin))
                /\ stdout' = Append(stdout, <<PromptText>>)

\* C28: every iteration of _prompt's loop that reads an empty line prints the
\* empty-input message and prompts again; the iteration that reads a line
\* that is not empty returns that very line; so the line main holds is never
\* empty, rle_encode is never called with the empty str, and the non-empty
\* ValueError is never raised under main.
C28_PromptLoop == [](LineHeld) /\ [][LineRead]_vars

\* After two empty lines the third line went to rle_encode, which returned.
C28_Witness ==
    /\ mpc = "exit" /\ Encoding(1) /\ pc[1] = "return"
    /\ Len(stdout) = 6
    /\ stdout[2] = <<EmptyLineText>> /\ stdout[4] = <<EmptyLineText>>
    /\ text[1] = user_text

\* ------------------------------------------------------------------ C29
\* Every Count rle_decode has read is at least 1.
CountsPositive ==
    \A c \in Callers : \A j \in 1..Len(toks[c]) : toks[c][j].count >= 1

\* An iteration of the loop that does not raise appends one part, and the
\* output is longer after it than before.
OutputGrows ==
    \A c \in Callers :
        (pc[c] = "dec_loop" /\ iters'[c] # iters[c] /\ pc'[c] # "raise") =>
            /\ Len(out'[c]) = Len(out[c]) + 1
            /\ Len(Join(out'[c])) > Len(Join(out[c]))
            /\ Len(Join(out'[c])) =
                    Len(Join(out[c])) + toks'[c][Len(toks'[c])].count

\* rle_decode returns the empty str exactly for the empty body.
EmptyOnlyForEmptyBody ==
    \A c \in Callers :
        (Decoding(c) /\ pc[c] = "return") =>
            (ret[c] = <<>> <=> Len(encoded[c].val) = 4)

\* C29: every Count _read_count returns is at least 1, every iteration of
\* rle_decode's loop that does not raise makes the output strictly longer,
\* and an accepted stream decodes to the empty str if and only if its body
\* is empty.
C29_TokensContribute ==
    [](CountsPositive /\ EmptyOnlyForEmptyBody) /\ [][OutputGrows]_vars

\* A stream in which a literal is followed by '0' was accepted: the '0' was
\* read as a literal of its own, each token gave one character or more.
C29_Witness ==
    /\ Decoding(1) /\ ~chain[1] /\ pc[1] = "return"
    /\ Len(toks[1]) >= 2 /\ Len(ret[1]) >= Len(toks[1])
    /\ toks[1][2].literal = "0" /\ IsPlain(1, 2)
    /\ \E j \in 1..Len(toks[1]) : toks[1][j].count >= 2

\* ------------------------------------------------------------------ C30
\* Every character of t is '#' or a decimal digit (0-9).
HashesAndDigits(t) == \A j \in 1..Len(t) : t[j] \in {"#"} \cup Digits

\* C30: the stream rle_encode returns for the text s is at most
\* 4 + 2 * len(s) characters long, and exactly that long if and only if every
\* character of s is '#' or a decimal digit and no two adjacent characters
\* are equal.
C30_ExpansionBound ==
    \A c \in Callers :
        (Encoding(c) /\ pc[c] = "return") =>
            /\ Len(ret[c]) <= 4 + 2 * Len(text[c].val)
            /\ Len(ret[c]) = 4 + 2 * Len(text[c].val)
                    <=> (HashesAndDigits(text[c].val) /\ NoRepeat(text[c].val))

====
